---- MODULE Spec2Model ----
(***************************************************************************)
(* Model of the client hook useSyncedStorage (src/lib/use-synced-storage.ts)*)
(* and of the account data route it talks to (src/unnamed/part_000).        *)
(*                                                                         *)
(* One component instance of the hook is modelled together with the React  *)
(* state queue it runs on, the browser's localStorage and timers, the      *)
(* requests in flight, and the server's userData table for one user.       *)
(*                                                                         *)
(* React's useState contract, as far as the hook relies on it:             *)
(*   - setValue(updaterFn) queues the updater; React calls it with the     *)
(*     pending state either at once, when nothing else is queued (eager    *)
(*     state), or during the next render. Which of the two is React's      *)
(*     choice, so the model leaves it open.                                *)
(*   - queued updates are flushed by a render before another task (a timer *)
(*     callback, a promise continuation, an unmount) runs.                 *)
(*   - after an unmount no render happens any more.                        *)
(*                                                                         *)
(* The environment: localStorage reads and writes succeed; a request in    *)
(* flight is answered, fails, or stays unanswered; the server handles the  *)
(* requests it receives in any order.                                      *)
(*                                                                         *)
(* Besides the component with its server (Spec, WideSpec, FairSpec) three  *)
(* parts are taken alone: a binding written and built again with any       *)
(* JSON-serializable value (CacheSpec), the route handling the requests of *)
(* two users one after the other (RouteSpec), and the hook                 *)
(* useSyncedSettings (SettingsSpec).                                       *)
(***************************************************************************)
EXTENDS Naturals, Integers, Sequences, FiniteSets, TLC

\* ---------------------------------------------------------------- bounds
MaxEvents == 4   \* setValue calls plus runs of the mount effect in one behaviour
MaxSettingsCalls == 3   \* setValue calls on the Settings Mirror in one behaviour

\* ------------------------------------------------------------ JS values
\* A JS value is its type tag and its text; a storage string is its text and
\* whether that text is wrapped in double quotes.
Str(t) == [type |-> "string", text |-> t]
Num(t) == [type |-> "number", text |-> t]
Bool(t) == [type |-> "boolean", text |-> t]
Null == [type |-> "null", text |-> "null"]
Obj(t) == [type |-> "object", text |-> t]

Raw(t) == [quoted |-> FALSE, text |-> t]
Quoted(t) == [quoted |-> TRUE, text |-> t]

None == <<>>
Some(x) == <<x>>

Numerals == {"0", "1", "123"}
Objects == {"{}"}
Keys == {"k1", "k2"}
Values == {Str("light"), Str("dark")}

\* The JSON-serializable values the wider checks draw from: the falsy ones,
\* and strings whose text is itself JSON
JSONValues ==
  {Str(""), Str("dark"), Str("123"), Str("true"), Num("0"), Num("1"),
   Bool("true"), Bool("false"), Null, Obj("{}")}

\* Faulty variant: a string is written as it is, without quotes
JSONstringifyBare(v) == Raw(v.text)

\* JSON.stringify of a JSON-serializable value
JSONstringify(v) == IF v.type = "string" THEN Quoted(v.text) ELSE Raw(v.text)

\* JSON.parse: whether it returns, and what
JSONparses(s) ==
  s.quoted \/ s.text \in Numerals \cup Objects \cup {"true", "false", "null"}
JSONparse(s) ==
  IF s.quoted THEN Str(s.text)
  ELSE IF s.text \in Numerals THEN Num(s.text)
  ELSE IF s.text \in {"true", "false"} THEN Bool(s.text)
  ELSE IF s.text \in Objects THEN Obj(s.text)
  ELSE Null

\* ------------------------------------------------- the caller's arguments
initialValue == Str("light")

\* What a caller passes to setValue: a literal or a function of the previous
\* value. toggle is (prev) => prev === "light" ? "dark" : "light".
Literal(v) == [fn |-> FALSE, name |-> "literal", lit |-> v]
Updater(n) == [fn |-> TRUE, name |-> n, lit |-> Null]
NewValues == {Literal(v) : v \in Values} \cup {Updater("toggle")}

CallUpdater(n, prev) == IF prev = Str("light") THEN Str("dark") ELSE Str("light")

\* typeof newValue === 'function' ? newValue(prev) : newValue
Resolve(newValue, prev) ==
  IF newValue.fn THEN CallUpdater(newValue.name, prev) ELSE newValue.lit

\* ------------------------------------------------------------------ state
VARIABLES
  phase,          \* "constructed" (rendered once, effects not yet run), "mounted", "unmounted"
  key,            \* the key prop of the current render
  syncOnMount,    \* the syncOnMount option
  value,          \* useState value as last rendered (what the hook returns)
  isLoading,      \* useState isLoading as last rendered
  queue,          \* React's queue of pending updates of value, oldest first
  loadingQueued,  \* a pending setIsLoading(false)
  mountedRef,     \* mountedRef.current
  saveTimeoutRef, \* saveTimeoutRef.current: the id of the last timer armed, 0 for null
  timers,         \* the browser's armed timers: [id, key, resolved]
  localStorage,   \* Local Cache: key -> None or Some(storage string)
  token,          \* whether localStorage holds a 'token'
  fetches,        \* getUserData calls in flight: [gen, key]
  posts,          \* saveUserData calls not (yet) handled by the server: [call, key, value]
  userData,       \* the server's table: a set of [userId, key, value]
  gen,            \* how many times the mount effect has run (the activation)
  \* history, read by the properties only
  nCalls,         \* setValue calls made so far
  nGets,          \* getUserData calls made so far
  sent,           \* saveUserData calls made so far: [call, key, value, alive, token]
  skipped,        \* ids of the timers that fired without a token
  expected,       \* the value the calls made so far fold to
  lastResolved,   \* what the last setValue call resolves to under that fold
  lateCall,       \* some setValue call was made after a timer had fired
  tokenEver,      \* a token has been present at some point
  \* the account data route taken alone (RouteSpec)
  request,        \* the request the route handled last, None before the first
  response,       \* its response, None before the first
  lastWrite,      \* history: (userId, key) -> what the last POST or PUT not followed
                  \* by a DELETE stored for it, None without one
  repeated,       \* history: the request handled last is the one handled before it
  \* useSyncedSettings (SettingsSpec)
  settingsValue,  \* useState value of the Settings Mirror
  settingsImports,\* import('./user-data') promises not yet resolved: the updates they carry
  settingsSent,   \* saveUserSettings calls made so far
  \* a binding written and built again (CacheSpec, SettingsSpec)
  stage           \* "constructed", then "written" after a setValue call, "reopened"
                  \* after a fresh binding was built on the same key

vars == <<phase, key, syncOnMount, value, isLoading, queue, loadingQueued,
          mountedRef, saveTimeoutRef, timers, localStorage, token, fetches,
          posts, userData, gen, nCalls, nGets, sent, skipped, expected,
          lastResolved, lateCall, tokenEver,
          request, response, lastWrite, repeated, settingsValue, settingsImports,
          settingsSent, stage>>

hookVars == <<value, isLoading, queue, loadingQueued, mountedRef, saveTimeoutRef>>
histVars == <<nCalls, nGets, sent, skipped, expected, lastResolved, lateCall>>
\* What the hook useSyncedStorage never touches
auxVars == <<request, response, lastWrite, repeated, settingsValue, settingsImports,
             settingsSent, stage>>
routeVars == <<request, response, lastWrite, repeated>>
settingsVars == <<settingsValue, settingsImports, settingsSent>>

User == "u1"

\* ------------------------------------------------------ construction
\* useState(() => ...) of value: the cached entry if it is non-empty and
\* parses, initialValue otherwise.
InitialState(ls, k) ==
  LET saved == ls[k] IN
  IF saved # None /\ (saved[1].quoted \/ saved[1].text # "") /\ JSONparses(saved[1])
  THEN JSONparse(saved[1])
  ELSE initialValue

\* useState(syncOnMount) of isLoading
InitialIsLoading(som) == som

\* What the Local Cache and the server may hold when the component is built.
InitialCaches ==
  {[k \in Keys |-> IF k = "k1" THEN e ELSE None] :
     e \in {None, Some(Quoted("dark"))}}
\* The same, and entries that JSON.parse rejects or the initializer skips:
\* a bare word (as String(value) of the Settings Mirror leaves) and the
\* empty string
WideCaches ==
  InitialCaches \cup
  {[k \in Keys |-> IF k = "k1" THEN e ELSE None] : e \in {Some(Raw("dark")), Some(Raw(""))}}
InitialTables ==
  {{}, {[userId |-> User, key |-> "k1", value |-> Raw("1")],
        [userId |-> User, key |-> "k2", value |-> Raw("dark")]}}

\* Nothing of the route taken alone or of the Settings Mirror is in play
NoRoute ==
  /\ request = None
  /\ response = None
  /\ lastWrite = None
  /\ repeated = FALSE
NoSettings ==
  /\ settingsValue = Null
  /\ settingsImports = <<>>
  /\ settingsSent = <<>>
NoAux == NoRoute /\ NoSettings /\ stage = "constructed"

\* The component is built with the Local Cache being one of caches
Construct(caches) ==
  /\ phase = "constructed"
  /\ key = "k1"
  /\ syncOnMount \in BOOLEAN
  /\ localStorage \in caches
  /\ value = InitialState(localStorage, key)
  /\ isLoading = InitialIsLoading(syncOnMount)
  /\ queue = <<>>
  /\ loadingQueued = FALSE
  /\ mountedRef = TRUE
  /\ saveTimeoutRef = 0
  /\ timers = {}
  /\ token \in BOOLEAN
  /\ fetches = {}
  /\ posts = {}
  /\ userData \in InitialTables
  /\ gen = 0
  /\ nCalls = 0
  /\ nGets = 0
  /\ sent = <<>>
  /\ skipped = {}
  /\ expected = value
  /\ lastResolved = value
  /\ lateCall = FALSE
  /\ tokenEver = token
  /\ NoAux

Init == Construct(InitialCaches)

\* ------------------------------------------------------------ React
\* Nothing is queued on the component: a task other than a setValue call or
\* the render itself starts only then.
Idle == queue = <<>> /\ ~loadingQueued

\* Faulty variant: the setIsLoading(false) call is missing
SetIsLoadingFalseLost(pending, current) == pending

\* setIsLoading(false): queued unless isLoading is false already
SetIsLoadingFalse(pending, current) == pending \/ current

\* ------------------------------------------------- the setValue updater
\* clearTimeout(id): the timer with that id, if still armed, is dropped
ClearTimeout(ts, id) == {t \in ts : t.id # id}

\* Faulty variant: the pending timer is left armed
CancelPendingNever(ts, ref) == ts

\* if (saveTimeoutRef.current) clearTimeout(saveTimeoutRef.current)
CancelPending(ts, ref) == IF ref # 0 THEN ClearTimeout(ts, ref) ELSE ts

\* Faulty variant: the updater reads the value captured by the render's closure
PrevOfRender(prev, rendered) == rendered

\* The value the updater resolves newValue against: the prev React hands it
PrevOf(prev, rendered) == prev

\* Faulty variant: the Local Cache is not written
SetItemSkipped(ls, k, resolved) == ls

\* The Local Cache after localStorage.setItem(k, JSON.stringify(resolved))
SetItem(ls, k, resolved) == [ls EXCEPT ![k] = Some(JSONstringify(resolved))]

\* The body of the updater passed to setValue, run by React on the world
\* w = [state, localStorage, timers, saveTimeoutRef] for the call `call`
\* made through the setter that closed over key k.
RunUpdater(w, k, call, newValue, rendered) ==
  LET resolved == Resolve(newValue, PrevOf(w.state, rendered)) IN
  [state |-> resolved,
   localStorage |-> SetItem(w.localStorage, k, resolved),
   timers |-> CancelPending(w.timers, w.saveTimeoutRef)
                \cup {[id |-> call, key |-> k, resolved |-> resolved]},
   saveTimeoutRef |-> call]

\* Faulty variant: a value set directly also cancels the pending write
ReduceCancelling(w, u, rendered) ==
  IF u.kind = "updater"
  THEN RunUpdater(w, u.key, u.call, u.newValue, rendered)
  ELSE [w EXCEPT !.state = u.state,
                 !.timers = CancelPending(w.timers, w.saveTimeoutRef)]

\* One queued update applied during a render
Reduce(w, u, rendered) ==
  IF u.kind = "updater"
  THEN RunUpdater(w, u.key, u.call, u.newValue, rendered)
  ELSE [w EXCEPT !.state = u.state]

RECURSIVE Flush(_, _, _)
Flush(w, q, rendered) ==
  IF q = <<>> THEN w ELSE Flush(Reduce(w, Head(q), rendered), Tail(q), rendered)

World == [state |-> value, localStorage |-> localStorage, timers |-> timers,
          saveTimeoutRef |-> saveTimeoutRef]

QueuedUpdater(k, call, newValue) ==
  [kind |-> "updater", key |-> k, call |-> call, newValue |-> newValue, state |-> Null]
QueuedState(kind, st) ==
  [kind |-> kind, key |-> "", call |-> 0, newValue |-> Literal(Null), state |-> st]

\* The history of a setValue call
RecordCall(newValue) ==
  /\ nCalls' = nCalls + 1
  /\ lastResolved' = Resolve(newValue, expected)
  /\ expected' = Resolve(newValue, expected)
  /\ lateCall' = (lateCall \/ sent # <<>> \/ skipped # {})
  /\ UNCHANGED <<nGets, sent, skipped>>

\* React runs the updater inside the setValue call (nothing else is queued)
SetValueEager(newValue) ==
  LET w == RunUpdater(World, key, nCalls + 1, newValue, value) IN
  /\ localStorage' = w.localStorage
  /\ timers' = w.timers
  /\ saveTimeoutRef' = w.saveTimeoutRef
  /\ queue' = IF phase = "mounted" /\ w.state # value
              THEN <<QueuedState("eager", w.state)>> ELSE <<>>
  /\ UNCHANGED <<value, isLoading, loadingQueued, mountedRef>>

\* React keeps the updater for the next render
SetValueQueued(newValue) ==
  /\ queue' = IF phase = "mounted"
              THEN Append(queue, QueuedUpdater(key, nCalls + 1, newValue))
              ELSE queue
  /\ UNCHANGED <<localStorage, timers, saveTimeoutRef, value, isLoading,
                 loadingQueued, mountedRef>>

\* setValueAndSync(newValue), called by the application
setValueAndSync(newValue) ==
  /\ phase \in {"mounted", "unmounted"}
  /\ nCalls + gen < MaxEvents
  /\ \/ Idle /\ SetValueEager(newValue)
     \/ SetValueQueued(newValue)
  /\ RecordCall(newValue)
  /\ UNCHANGED <<phase, key, syncOnMount, token, fetches, posts, userData, gen,
                 tokenEver>>
  /\ UNCHANGED auxVars

\* React renders the component: the queued updates are applied in order
Render ==
  /\ phase = "mounted"
  /\ ~Idle
  /\ LET w == Flush(World, queue, value) IN
       /\ value' = w.state
       /\ localStorage' = w.localStorage
       /\ timers' = w.timers
       /\ saveTimeoutRef' = w.saveTimeoutRef
  /\ isLoading' = (isLoading /\ ~loadingQueued)
  /\ queue' = <<>>
  /\ loadingQueued' = FALSE
  /\ UNCHANGED <<phase, key, syncOnMount, mountedRef, token, fetches, posts,
                 userData, gen, tokenEver>>
  /\ UNCHANGED histVars
  /\ UNCHANGED auxVars

\* ------------------------------------------------- the account data route
\* prisma.userData.findUnique({where: {userId_key}}): the records found
FindUnique(table, userId, k) == {r \in table : r.userId = userId /\ r.key = k}

\* Faulty variant: the value is appended to the one the record holds
UpsertAppend(table, userId, k, valueStr) ==
  IF \E r \in table : r.userId = userId /\ r.key = k
  THEN {IF r.userId = userId /\ r.key = k
        THEN [r EXCEPT !.value = Raw(r.value.text \o valueStr.text)] ELSE r : r \in table}
  ELSE table \cup {[userId |-> userId, key |-> k, value |-> valueStr]}

\* prisma.userData.upsert: update the record of (userId, key) or create it
Upsert(table, userId, k, valueStr) ==
  IF FindUnique(table, userId, k) # {}
  THEN {IF r.userId = userId /\ r.key = k THEN [r EXCEPT !.value = valueStr] ELSE r :
          r \in table}
  ELSE table \cup {[userId |-> userId, key |-> k, value |-> valueStr]}

\* typeof value === 'string' ? value : JSON.stringify(value)
ValueStr(v) == IF v.type = "string" THEN Raw(v.text) ELSE JSONstringify(v)

\* GET ?key=k: { value: null } without a record, else the stored string
\* JSON-decoded if it parses, the raw string if not
GETvalue(table, userId, k) ==
  LET found == FindUnique(table, userId, k) IN
  IF found = {} THEN Null
  ELSE LET data == CHOOSE r \in found : TRUE IN
       IF JSONparses(data.value) THEN JSONparse(data.value) ELSE Str(data.value.text)

\* ------------------------------------------------------ ./user-data
\* getUserData(key): the value field of the route's answer to GET ?key=key
getUserData(table, k) == GETvalue(table, User, k)

\* ------------------------------------------------------ the mount effect
\* Faulty variant: a null answer is applied like any other
ShouldApplyNull(serverData, mounted) == mounted

\* if (serverData !== null && mountedRef.current)
ShouldApply(serverData, mounted) == serverData # Null /\ mounted

\* Faulty variant: the timer callback does not look at the token
TokenGateOpen(tok) == TRUE

\* if (!token) return, in the timer callback
TokenGate(tok) == tok

\* The effect of [key, syncOnMount], run for activation g with key k
MountEffect(k, g) ==
  /\ mountedRef' = TRUE
  /\ gen' = g
  /\ IF syncOnMount /\ token
     THEN /\ fetches' = fetches \cup {[gen |-> g, key |-> k]}
          /\ nGets' = nGets + 1
          /\ UNCHANGED loadingQueued
     ELSE /\ loadingQueued' = SetIsLoadingFalse(loadingQueued, isLoading)
          /\ UNCHANGED <<fetches, nGets>>
  /\ UNCHANGED <<value, isLoading, queue, saveTimeoutRef, timers, localStorage, token,
                 posts, userData, syncOnMount, tokenEver>>
  /\ UNCHANGED <<nCalls, sent, skipped, expected, lastResolved, lateCall>>
  /\ UNCHANGED auxVars

\* The effects run after the first render
Mount ==
  /\ phase = "constructed"
  /\ phase' = "mounted"
  /\ UNCHANGED key
  /\ MountEffect(key, 1)

\* The parent renders the component with another key: the effect's cleanup
\* (mountedRef.current = false) and then the effect run again. The timeout
\* cleanup effect has no dependencies and does not run.
KeyChange(k) ==
  /\ phase = "mounted"
  /\ Idle
  /\ nCalls + gen < MaxEvents
  /\ k # key
  /\ key' = k
  /\ UNCHANGED phase
  /\ MountEffect(k, gen + 1)

\* The cleanup of the timeout effect
TimeoutCleanup(ts, ref) == CancelPending(ts, ref)

\* The component is unmounted: both cleanups run
Unmount ==
  /\ phase = "mounted"
  /\ Idle
  /\ phase' = "unmounted"
  /\ mountedRef' = FALSE
  /\ timers' = TimeoutCleanup(timers, saveTimeoutRef)
  /\ UNCHANGED <<key, syncOnMount, value, isLoading, queue, loadingQueued,
                 saveTimeoutRef, localStorage, token, fetches, posts, userData, gen,
                 tokenEver>>
  /\ UNCHANGED histVars
  /\ UNCHANGED auxVars

\* The route answers the GET and await getUserData(key) returns serverData:
\* the rest of loadFromServer
FetchResolve(f) ==
  /\ f \in fetches
  /\ Idle
  /\ fetches' = fetches \ {f}
  /\ LET serverData == getUserData(userData, f.key) IN
     IF ShouldApply(serverData, mountedRef)
     THEN /\ queue' = Append(queue, QueuedState("set", serverData))
          /\ localStorage' = SetItem(localStorage, f.key, serverData)
          /\ expected' = serverData
     ELSE UNCHANGED <<queue, localStorage, expected>>
  /\ loadingQueued' = IF mountedRef THEN SetIsLoadingFalse(loadingQueued, isLoading)
                      ELSE loadingQueued
  /\ UNCHANGED <<phase, key, syncOnMount, value, isLoading, mountedRef, saveTimeoutRef,
                 timers, token, posts, userData, gen, tokenEver>>
  /\ UNCHANGED <<nCalls, nGets, sent, skipped, lastResolved, lateCall>>
  /\ UNCHANGED auxVars

\* await getUserData(key) throws: catch, then finally
FetchFail(f) ==
  /\ f \in fetches
  /\ Idle
  /\ fetches' = fetches \ {f}
  /\ loadingQueued' = IF mountedRef THEN SetIsLoadingFalse(loadingQueued, isLoading)
                      ELSE loadingQueued
  /\ UNCHANGED <<phase, key, syncOnMount, value, isLoading, queue, mountedRef,
                 saveTimeoutRef, timers, localStorage, token, posts, userData, gen,
                 tokenEver>>
  /\ UNCHANGED histVars
  /\ UNCHANGED auxVars

\* A debounce timer fires: its callback
TimerFire(t) ==
  /\ t \in timers
  /\ Idle
  /\ timers' = timers \ {t}
  /\ IF TokenGate(token)
     THEN /\ posts' = posts \cup {[call |-> t.id, key |-> t.key, value |-> t.resolved]}
          /\ sent' = Append(sent, [call |-> t.id, key |-> t.key, value |-> t.resolved,
                                   alive |-> phase = "mounted", token |-> token])
          /\ UNCHANGED skipped
     ELSE /\ skipped' = skipped \cup {t.id}
          /\ UNCHANGED <<posts, sent>>
  /\ UNCHANGED <<phase, key, syncOnMount, localStorage, token, fetches, userData, gen,
                 tokenEver>>
  /\ UNCHANGED hookVars
  /\ UNCHANGED <<nCalls, nGets, expected, lastResolved, lateCall>>
  /\ UNCHANGED auxVars

\* The server handles the POST of a saveUserData call. A call that fails
\* (logged by the catch of the timer callback, never retried) is one the
\* server never handles: it stays in posts.
ServerPost(p) ==
  /\ p \in posts
  /\ Idle
  /\ posts' = posts \ {p}
  /\ userData' = Upsert(userData, User, p.key, ValueStr(p.value))
  /\ UNCHANGED <<phase, key, syncOnMount, localStorage, token, fetches, gen, timers,
                 tokenEver>>
  /\ UNCHANGED hookVars
  /\ UNCHANGED histVars
  /\ UNCHANGED auxVars

\* The application logs in or out: the 'token' entry appears or goes
SetToken ==
  /\ Idle
  /\ token' = ~token
  /\ tokenEver' = TRUE
  /\ UNCHANGED <<phase, key, syncOnMount, localStorage, fetches, posts, userData, gen,
                 timers>>
  /\ UNCHANGED hookVars
  /\ UNCHANGED histVars
  /\ UNCHANGED auxVars

Next ==
  \/ Mount
  \/ \E k \in Keys : KeyChange(k)
  \/ Unmount
  \/ \E nv \in NewValues : setValueAndSync(nv)
  \/ Render
  \/ \E t \in timers : TimerFire(t)
  \/ \E f \in fetches : FetchResolve(f)
  \/ \E f \in fetches : FetchFail(f)
  \/ \E p \in posts : ServerPost(p)
  \/ SetToken

Spec == Init /\ [][Next]_vars

\* The same component built over any Local Cache, an entry that does not
\* parse included
WideInit == Construct(WideCaches)
WideSpec == WideInit /\ [][Next]_vars

\* The steps that happen without the application asking: effects run after
\* the first render, React renders what is queued, and a getUserData call in
\* flight ends, with an answer or with a failure.
Progress == Mount \/ Render \/ \E f \in fetches : FetchResolve(f) \/ FetchFail(f)

\* The event loop does not stall: while such a step is possible, one is taken.
FairSpec == Spec /\ WF_vars(Progress)

\* ------------------------------------------- a binding written and rebuilt
\* A binding without a mount refresh (syncOnMount false, or no token), taken
\* alone: it is mounted, setValue is called with any JSON-serializable value
\* and rendered, and the component is unmounted and built again on the same
\* key.
CacheInit == Construct(WideCaches) /\ ~(syncOnMount /\ token) /\ userData = {}

\* setValue(v) and the render that follows it
CacheStore(v) ==
  /\ phase = "mounted"
  /\ Idle
  /\ nCalls < MaxEvents
  /\ LET w == RunUpdater(World, key, nCalls + 1, Literal(v), value) IN
       /\ value' = w.state
       /\ localStorage' = w.localStorage
       /\ timers' = w.timers
       /\ saveTimeoutRef' = w.saveTimeoutRef
  /\ nCalls' = nCalls + 1
  /\ lastResolved' = v
  /\ expected' = v
  /\ stage' = "written"
  /\ UNCHANGED <<phase, key, syncOnMount, isLoading, queue, loadingQueued, mountedRef,
                 token, fetches, posts, userData, gen, nGets, sent, skipped, lateCall,
                 tokenEver>>
  /\ UNCHANGED routeVars
  /\ UNCHANGED settingsVars

\* The component is unmounted and a fresh one is built on the same key: the
\* timeout cleanup, then the useState initializer
CacheReopen ==
  /\ phase = "mounted"
  /\ Idle
  /\ timers' = TimeoutCleanup(timers, saveTimeoutRef)
  /\ phase' = "constructed"
  /\ saveTimeoutRef' = 0
  /\ mountedRef' = TRUE
  /\ gen' = 0
  /\ value' = InitialState(localStorage, key)
  /\ isLoading' = InitialIsLoading(syncOnMount)
  /\ stage' = "reopened"
  /\ UNCHANGED <<key, syncOnMount, queue, loadingQueued, localStorage, token, fetches,
                 posts, userData, tokenEver>>
  /\ UNCHANGED histVars
  /\ UNCHANGED routeVars
  /\ UNCHANGED settingsVars

CacheNext ==
  \/ Mount
  \/ Render
  \/ \E v \in JSONValues : CacheStore(v)
  \/ CacheReopen

CacheSpec == CacheInit /\ [][CacheNext]_vars

\* --------------------------------------- the account data route, alone
\* The route handles one request after the other, from any user or from
\* nobody; its database calls succeed.
Users == {"u1", "u2"}
RouteValues == {Str("dark"), Str("123"), Num("123")}
RouteKeys == {None, Some("")} \cup {Some(k) : k \in Keys}
NoBody == [k \in Keys |-> None]
Bodies == [Keys -> {None} \cup {Some(v) : v \in RouteValues}]

\* A request: the method, the user the Authorization header stands for (None
\* without a valid one), the key of the query string or of the POST body
\* (None when left out), the value of the POST body, the map of the PUT body.
Request(method, credential, k, v, body) ==
  [method |-> method, credential |-> credential, key |-> k, value |-> v, body |-> body]
GETs == {Request("GET", c, k, Null, NoBody) :
           c \in {None} \cup {Some(u) : u \in Users}, k \in RouteKeys}
POSTs == {Request("POST", c[1], c[2], c[3], NoBody) :
            c \in ({None} \cup {Some(u) : u \in Users}) \X RouteKeys \X RouteValues}
PUTs == {Request("PUT", c, None, Null, b) :
           c \in {None} \cup {Some(u) : u \in Users}, b \in Bodies}
DELETEs == {Request("DELETE", c, k, Null, NoBody) :
              c \in {None} \cup {Some(u) : u \in Users}, k \in RouteKeys}

\* getUserIdFromRequest(request): the user id, None for null
getUserIdFromRequest(req) == req.credential

\* Faulty variant: only a key left out counts as missing
NoKeyStrict(k) == k = None

\* !key
NoKey(k) == k = None \/ k = Some("")

\* The responses
Response(status, kind) ==
  [status |-> status, kind |-> kind, value |-> Null, all |-> NoBody, saved |-> 0]
Unauthorized == Response(401, "error")
KeyRequired == Response(400, "error")
Success == Response(200, "success")

\* JSON.parse(data.value), or data.value when it throws
Decode(valueStr) ==
  IF JSONparses(valueStr) THEN JSONparse(valueStr) ELSE Str(valueStr.text)

\* Faulty variant: the records of every user are read
FindManyAll(table, userId) == table

\* prisma.userData.findMany({where: {userId}})
FindMany(table, userId) == {r \in table : r.userId = userId}

\* The result object GET builds from the records found
ResultOf(found) ==
  [k \in Keys |-> IF \E r \in found : r.key = k
                  THEN Some(Decode((CHOOSE r \in found : r.key = k).value))
                  ELSE None]

\* Faulty variant: nothing is deleted
DeleteManyNone(table, userId, k) == table

\* prisma.userData.deleteMany({where: {userId, key}})
DeleteMany(table, userId, k) == {r \in table : ~(r.userId = userId /\ r.key = k)}

\* The keys of Object.entries(body), in order
EntryKeys(body) == SelectSeq(<<"k1", "k2">>, LAMBDA k : body[k] # None)

\* for (const [key, value] of Object.entries(body)) upsert
RECURSIVE UpsertEach(_, _, _, _)
UpsertEach(table, userId, body, ks) ==
  IF ks = <<>> THEN table
  ELSE UpsertEach(Upsert(table, userId, Head(ks), ValueStr(body[Head(ks)][1])),
                  userId, body, Tail(ks))

\* The handlers: the table they leave and the response they give
GET(table, req) ==
  LET userId == getUserIdFromRequest(req) IN
  [table |-> table,
   response |->
     IF userId = None THEN Unauthorized
     ELSE IF ~NoKey(req.key)
          THEN [Response(200, "value") EXCEPT !.value = GETvalue(table, userId[1], req.key[1])]
          ELSE [Response(200, "all") EXCEPT !.all = ResultOf(FindMany(table, userId[1]))]]

POST(table, req) ==
  LET userId == getUserIdFromRequest(req) IN
  IF userId = None THEN [table |-> table, response |-> Unauthorized]
  ELSE IF NoKey(req.key) THEN [table |-> table, response |-> KeyRequired]
  ELSE [table |-> Upsert(table, userId[1], req.key[1], ValueStr(req.value)),
        response |-> Success]

PUT(table, req) ==
  LET userId == getUserIdFromRequest(req) IN
  IF userId = None THEN [table |-> table, response |-> Unauthorized]
  ELSE [table |-> UpsertEach(table, userId[1], req.body, EntryKeys(req.body)),
        response |-> [Success EXCEPT !.saved = Len(EntryKeys(req.body))]]

DELETE(table, req) ==
  LET userId == getUserIdFromRequest(req) IN
  IF userId = None THEN [table |-> table, response |-> Unauthorized]
  ELSE IF NoKey(req.key) THEN [table |-> table, response |-> KeyRequired]
  ELSE [table |-> DeleteMany(table, userId[1], req.key[1]), response |-> Success]

\* History: what the requests handled so far last stored for each user and key
Stored(table) ==
  [uk \in Users \X Keys |->
     IF FindUnique(table, uk[1], uk[2]) = {} THEN None
     ELSE Some((CHOOSE r \in FindUnique(table, uk[1], uk[2]) : TRUE).value)]
Written(lw, req) ==
  IF req.credential = None THEN lw
  ELSE LET u == req.credential[1] IN
       IF req.method = "POST" /\ req.key # None /\ req.key # Some("")
       THEN [lw EXCEPT ![<<u, req.key[1]>>] = Some(ValueStr(req.value))]
       ELSE IF req.method = "PUT"
       THEN [uk \in Users \X Keys |->
               IF uk[1] = u /\ req.body[uk[2]] # None
               THEN Some(ValueStr(req.body[uk[2]][1])) ELSE lw[uk]]
       ELSE IF req.method = "DELETE" /\ req.key # None /\ req.key # Some("")
       THEN [lw EXCEPT ![<<u, req.key[1]>>] = None]
       ELSE lw

\* The hook is not in play
NoHook ==
  /\ phase = "constructed" /\ key = "k1" /\ syncOnMount = FALSE
  /\ value = initialValue /\ isLoading = FALSE /\ queue = <<>> /\ loadingQueued = FALSE
  /\ mountedRef = TRUE /\ saveTimeoutRef = 0 /\ timers = {}
  /\ fetches = {} /\ posts = {} /\ gen = 0
  /\ nCalls = 0 /\ nGets = 0 /\ sent = <<>> /\ skipped = {}
  /\ expected = initialValue /\ lastResolved = initialValue /\ lateCall = FALSE
hookOnly == <<phase, key, syncOnMount, value, isLoading, queue, loadingQueued, mountedRef,
              saveTimeoutRef, timers, fetches, posts, gen, nCalls, nGets, sent, skipped,
              expected, lastResolved, lateCall>>

RouteTables ==
  {{}, {[userId |-> "u1", key |-> "k1", value |-> Raw("dark")],
        [userId |-> "u2", key |-> "k1", value |-> Raw("123")]}}

RouteInit ==
  /\ NoHook
  /\ localStorage = [k \in Keys |-> None]
  /\ token = FALSE
  /\ tokenEver = FALSE
  /\ userData \in RouteTables
  /\ request = None
  /\ response = None
  /\ lastWrite = Stored(userData)
  /\ repeated = FALSE
  /\ NoSettings
  /\ stage = "constructed"

\* The route has handled req and left result
Handled(req, result) ==
  /\ userData' = result.table
  /\ response' = Some(result.response)
  /\ request' = Some(req)
  /\ repeated' = (request = Some(req))
  /\ lastWrite' = Written(lastWrite, req)
  /\ UNCHANGED hookOnly
  /\ UNCHANGED <<localStorage, token, tokenEver, stage>>
  /\ UNCHANGED settingsVars

RouteGET(req) == req.method = "GET" /\ Handled(req, GET(userData, req))
RoutePOST(req) == req.method = "POST" /\ Handled(req, POST(userData, req))
RoutePUT(req) == req.method = "PUT" /\ Handled(req, PUT(userData, req))
RouteDELETE(req) == req.method = "DELETE" /\ Handled(req, DELETE(userData, req))

RouteNext ==
  \/ \E req \in GETs : RouteGET(req)
  \/ \E req \in POSTs : RoutePOST(req)
  \/ \E req \in PUTs : RoutePUT(req)
  \/ \E req \in DELETEs : RouteDELETE(req)

RouteSpec == RouteInit /\ [][RouteNext]_vars

\* ------------------------------------------------ useSyncedSettings
\* One component using the Settings Mirror on settingsKey, the token coming
\* and going, and the component built again. React renders the value set
\* before anything else runs; the dynamic import of ./user-data succeeds.
settingsKey == "k1"
SettingsValues == {Bool("true"), Bool("false"), Str("dark"), Str("")}

\* The string a Local Cache entry is
StringOfEntry(s) == IF s.quoted THEN "\"" \o s.text \o "\"" ELSE s.text

\* String(newValue)
String(v) == Raw(v.text)

\* saved === 'true' ? true : saved === 'false' ? false : saved
Coerce(saved) == IF saved \in {"true", "false"} THEN Bool(saved) ELSE Str(saved)

\* useState(() => ...) of the Settings Mirror: the entry, coerced, if there is
\* one and it is not the empty string; initialValue otherwise
SettingsInitialState(ls, k) ==
  LET saved == ls[k] IN
  IF saved # None /\ StringOfEntry(saved[1]) # ""
  THEN Coerce(StringOfEntry(saved[1]))
  ELSE initialValue

SettingsCaches ==
  {[k \in Keys |-> IF k = settingsKey THEN e ELSE None] :
     e \in {None, Some(Raw("true")), Some(Raw("dark")), Some(Quoted("dark"))}}

SettingsInit ==
  /\ NoHook
  /\ localStorage \in SettingsCaches
  /\ token \in BOOLEAN
  /\ tokenEver = token
  /\ userData = {}
  /\ NoRoute
  /\ settingsValue = SettingsInitialState(localStorage, settingsKey)
  /\ settingsImports = <<>>
  /\ settingsSent = <<>>
  /\ stage = "constructed"

\* The partial update { [settingsKey]: newValue }
SettingsUpdate(k, v) == [key |-> k, value |-> v]

\* Faulty variant: the update is issued whether or not there is a token
IssuedAlways(imports, tok, update) == Append(imports, update)

\* if (token) import('./user-data').then(...)
Issued(imports, tok, update) == IF tok THEN Append(imports, update) ELSE imports

\* setValueAndSync(newValue) of the Settings Mirror
SettingsSetValue(newValue) ==
  /\ nCalls < MaxSettingsCalls
  /\ settingsValue' = newValue
  /\ localStorage' = [localStorage EXCEPT ![settingsKey] = Some(String(newValue))]
  /\ settingsImports' = Issued(settingsImports, token, SettingsUpdate(settingsKey, newValue))
  /\ nCalls' = nCalls + 1
  /\ stage' = "written"
  /\ UNCHANGED <<phase, key, syncOnMount, value, isLoading, queue, loadingQueued,
                 mountedRef, saveTimeoutRef, timers, fetches, posts, gen, nGets, sent,
                 skipped, expected, lastResolved, lateCall>>
  /\ UNCHANGED <<token, tokenEver, userData, settingsSent>>
  /\ UNCHANGED routeVars

\* The oldest import resolves: saveUserSettings({ [settingsKey]: newValue })
SettingsImported ==
  /\ settingsImports # <<>>
  /\ settingsSent' = Append(settingsSent, Head(settingsImports))
  /\ settingsImports' = Tail(settingsImports)
  /\ UNCHANGED hookOnly
  /\ UNCHANGED <<localStorage, token, tokenEver, userData, settingsValue, stage>>
  /\ UNCHANGED routeVars

\* The component is unmounted and a fresh one is built on settingsKey
SettingsReopen ==
  /\ settingsValue' = SettingsInitialState(localStorage, settingsKey)
  /\ stage' = "reopened"
  /\ UNCHANGED hookOnly
  /\ UNCHANGED <<localStorage, token, tokenEver, userData, settingsImports, settingsSent>>
  /\ UNCHANGED routeVars

SettingsNext ==
  \/ \E v \in SettingsValues : SettingsSetValue(v)
  \/ SettingsImported
  \/ SettingsReopen
  \/ SetToken

SettingsSpec == SettingsInit /\ [][SettingsNext]_vars

\* ================================================================ claims

SentCalls == {sent[i].call : i \in 1..Len(sent)}

C2_NoWriteAfterTeardown == \A i \in 1..Len(sent) : sent[i].alive

\* C3 (liveness flag): the completion of a mount fetch whose activation has
\* been torn down changes neither the value, nor isLoading, nor the Local Cache.
C3_StaleFetchInert ==
  [][\A f \in fetches :
       (f \notin fetches' /\ (f.gen # gen \/ phase = "unmounted")) =>
         /\ value' = value /\ queue' = queue
         /\ isLoading' = isLoading /\ loadingQueued' = loadingQueued
         /\ localStorage' = localStorage]_vars

\* C4 (token gating): every remote write was issued with a token present; a
\* write skipped for lack of a token is never sent later; and as long as no
\* token has ever been present there has been no network call at all.
C4_TokenGating ==
  /\ \A i \in 1..Len(sent) : sent[i].token
  /\ skipped \cap SentCalls = {}
  /\ ~tokenEver => (sent = <<>> /\ posts = {} /\ nGets = 0 /\ fetches = {})

C4_Witness == skipped # {} /\ sent # <<>> /\ nGets >= 1

\* The hook's state once React has rendered what is queued
Pending == Flush(World, queue, value)

\* The fetch f belongs to the activation that is still live
Active(f) == phase = "mounted" /\ f.gen = gen

\* C5 (remote convergence): for a binding that stayed mounted on its key, with
\* every timer fired with a token and no remote failure, once nothing is
\* pending or in flight any more the Remote Record holds the last call's
\* resolved value.
C5_RemoteConverges ==
  (/\ phase = "mounted" /\ gen = 1 /\ nCalls >= 1
   /\ Idle /\ timers = {} /\ posts = {} /\ skipped = {}) =>
    \E r \in FindUnique(userData, User, key) : r.value = ValueStr(lastResolved)

C7_MissLeavesValue ==
  [][\A f \in fetches :
       ((FetchResolve(f) /\ getUserData(userData, f.key) = Null) \/ FetchFail(f)) =>
         /\ value' = value /\ queue' = queue /\ localStorage' = localStorage
         /\ UNCHANGED <<timers, saveTimeoutRef, posts, userData, sent, isLoading>>
         /\ Pending'.state = Pending.state]_vars

C7_Witness ==
  /\ phase = "mounted" /\ Idle /\ gen = 1 /\ nGets = 1 /\ fetches = {} /\ nCalls = 0
  /\ userData = {} /\ ~isLoading /\ value = Str("dark")
  /\ localStorage[key] = Some(Quoted("dark"))

\* C8 (isLoading lifecycle): isLoading starts as syncOnMount; on a mounted
\* binding with nothing queued it is false as soon as no mount fetch is in
\* flight; once false it stays false; and it becomes false unless the binding
\* is unmounted.
C8_IsLoadingLifecycle ==
  /\ [](phase = "constructed" => isLoading = syncOnMount)
  /\ []((phase = "mounted" /\ Idle /\ fetches = {}) => ~isLoading)
  /\ [][~isLoading => ~isLoading']_vars
  /\ <>(phase = "unmounted" \/ ~isLoading)

C8_Witness ==
  /\ phase = "mounted" /\ syncOnMount /\ ~isLoading /\ nGets >= 1 /\ fetches = {}

\* C9 (synchronous local write): when a setValue call on a mounted binding
\* returns, the Local Cache entry of the key holds the serialized resolved
\* value, a timer for it is armed, and no remote write for it has been sent.
C9_LocalWriteAtReturn ==
  [][\A nv \in NewValues :
       (setValueAndSync(nv) /\ phase = "mounted") =>
         /\ localStorage'[key] = Some(JSONstringify(lastResolved'))
         /\ \E t \in timers' : t.id = nCalls' /\ t.resolved = lastResolved'
         /\ nCalls' \notin SentCalls]_vars

\* C10 (functional updates): on a mounted binding the value React renders from
\* what is queued is the left-to-right fold of the calls made.
C10_FoldOfCalls ==
  phase = "mounted" => (Pending.state = expected /\ (Idle => value = expected))

C10_Witness ==
  /\ phase = "mounted" /\ Len(queue) = 2
  /\ queue[1].kind = "updater" /\ queue[1].newValue.fn
  /\ queue[2].kind = "updater" /\ queue[2].newValue.fn
  /\ Pending.state = value

\* C11 (Local Cache round trip): a fresh binding built on the key right after
\* setValue(v), with no mount refresh, starts with v, for every
\* JSON-serializable v.
C11_CacheRoundTrip ==
  [][(CacheReopen /\ stage = "written") => value' = lastResolved]_vars

C11_Witness ==
  /\ stage = "reopened" /\ nCalls >= 1 /\ phase = "mounted"
  /\ lastResolved = Str("") /\ value = Str("") /\ value # initialValue

\* The request the route handled last was user u's, with a valid credential
LastBy(u) == request # None /\ request[1].credential = Some(u)

\* C12 (record uniqueness): after any sequence of requests the table holds at
\* most one record per (userId, key), and it holds the value of the last POST
\* or PUT for the pair that no DELETE of it followed; no record without one.
C12_OneRecordPerKey ==
  \A u \in Users, k \in Keys :
    /\ Cardinality(FindUnique(userData, u, k)) <= 1
    /\ lastWrite[<<u, k>>] = None => FindUnique(userData, u, k) = {}
    /\ lastWrite[<<u, k>>] # None =>
         FindUnique(userData, u, k) =
           {[userId |-> u, key |-> k, value |-> lastWrite[<<u, k>>][1]]}

C12_Witness ==
  /\ request # None /\ request[1].method = "DELETE" /\ response = Some(Success)
  /\ LastBy("u1") /\ request[1].key = Some("k1")
  /\ FindUnique(userData, "u1", "k1") = {}
  /\ \E r \in userData : r.userId = "u1" /\ r.key = "k2" /\ r.value = Raw("123")
  /\ \E r \in userData : r.userId = "u2" /\ r.key = "k1" /\ r.value = Raw("dark")

\* C13 (POST without a key): an authenticated POST whose body has no key, or
\* an empty one, is answered 400 with an error and leaves the table as it was.
C13_PostWithoutKey ==
  [][request' # None =>
       LET req == request'[1] IN
       (RoutePOST(req) /\ req.credential # None /\ req.key \in {None, Some("")}) =>
         /\ response'[1].status = 400
         /\ response'[1].kind = "error"
         /\ userData' = userData]_vars

C13_Witness ==
  /\ request # None /\ request[1].method = "POST" /\ LastBy("u1")
  /\ request[1].key = Some("") /\ response = Some(KeyRequired)
  /\ userData # {}

\* C14 (PUT idempotence): the same PUT by the same user handled a second time
\* in a row leaves the records the first left.
C14_PutIdempotent ==
  [][request' # None =>
       LET req == request'[1] IN
       (RoutePUT(req) /\ request = Some(req) /\ req.credential # None) =>
         userData' = userData]_vars

C14_Witness ==
  /\ repeated /\ request # None /\ request[1].method = "PUT" /\ LastBy("u2")
  /\ request[1].body = [k \in Keys |-> IF k = "k1" THEN Some(Str("dark")) ELSE Some(Num("123"))]
  /\ Cardinality({r \in userData : r.userId = "u2"}) = 2

\* The records of user u, and those of the others
Own(table, u) == {r \in table : r.userId = u}
Others(table, u) == {r \in table : r.userId # u}

\* The handler of req
Route(table, req) ==
  IF req.method = "GET" THEN GET(table, req)
  ELSE IF req.method = "POST" THEN POST(table, req)
  ELSE IF req.method = "PUT" THEN PUT(table, req)
  ELSE DELETE(table, req)

\* C15 (per-user scoping): a request authenticated as u leaves the records of
\* the other users as they were and is answered as it would be were u's
\* records the only ones; a request without a valid credential is answered
\* 401 and leaves the table as it was.
C15_PerUserScoping ==
  [][request' # None =>
       LET req == request'[1] IN
       (RouteGET(req) \/ RoutePOST(req) \/ RoutePUT(req) \/ RouteDELETE(req)) =>
         IF req.credential = None
         THEN response' = Some(Unauthorized) /\ userData' = userData
         ELSE /\ Others(userData', req.credential[1]) = Others(userData, req.credential[1])
              /\ \A r \in userData' \ userData : r.userId = req.credential[1]
              /\ response' = Some(Route(Own(userData, req.credential[1]), req).response)]_vars

C15_Witness ==
  /\ request # None /\ request[1].method = "GET" /\ LastBy("u1") /\ request[1].key = None
  /\ response # None /\ response[1].kind = "all"
  /\ response[1].all = [k \in Keys |-> IF k = "k1" THEN Some(Str("dark")) ELSE None]
  /\ \E r \in userData : r.userId = "u2" /\ r.key = "k2"

\* C20 (remote round trip): a GET of key k that follows a POST of {key: k,
\* value: v} by the same user returns v.
C20_RemoteRoundTrip ==
  [][request' # None =>
       LET req == request'[1] IN
       (/\ RouteGET(req)
        /\ request # None /\ request[1].method = "POST"
        /\ req.credential # None /\ request[1].credential = req.credential
        /\ ~NoKey(req.key) /\ request[1].key = req.key) =>
         /\ response'[1].status = 200
         /\ response'[1].value = request[1].value]_vars

\* C16 (Settings Mirror initial read): a Settings Mirror just built holds true
\* for the stored string "true", false for "false", the stored string itself
\* for any other stored string, and initialValue only when nothing is stored.
C16_SettingsInitialRead ==
  stage \in {"constructed", "reopened"} =>
    LET saved == localStorage[settingsKey] IN
    IF saved = None THEN settingsValue = initialValue
    ELSE IF StringOfEntry(saved[1]) = "true" THEN settingsValue = Bool("true")
    ELSE IF StringOfEntry(saved[1]) = "false" THEN settingsValue = Bool("false")
    ELSE settingsValue = Str(StringOfEntry(saved[1]))

\* The updates issued so far, sent or waiting for the import
SettingsIssued == settingsSent \o settingsImports

\* C17 (Settings Mirror writes): a setValue(v) call sets the value to v and the
\* Local Cache entry to String(v), and issues exactly one update
\* {settingsKey: v} if there is a token at the call and none otherwise; an
\* update issued is never withdrawn, and each is sent as issued.
C17_SettingsWrites ==
  /\ [][\A v \in SettingsValues :
          SettingsSetValue(v) =>
            /\ settingsValue' = v
            /\ localStorage'[settingsKey] = Some(String(v))
            /\ SettingsIssued' =
                 IF token THEN Append(SettingsIssued, SettingsUpdate(settingsKey, v))
                 ELSE SettingsIssued]_vars
  /\ [][(\E v \in SettingsValues : SettingsSetValue(v)) \/ SettingsIssued' = SettingsIssued]_vars
  /\ [][SettingsImported => Len(settingsSent') = Len(settingsSent) + 1]_vars

C17_Witness ==
  /\ nCalls = 3 /\ settingsImports = <<>> /\ Len(settingsSent) = 2
  /\ settingsSent[1] = SettingsUpdate(settingsKey, Bool("true"))
  /\ settingsSent[2] = SettingsUpdate(settingsKey, Bool("true"))
  /\ settingsValue = Str("dark") /\ localStorage[settingsKey] = Some(Raw("dark"))

C19_CacheAgrees ==
  (phase = "mounted" /\ gen = 1) =>
    (Pending.localStorage[key] # None =>
       Pending.localStorage[key] = Some(JSONstringify(Pending.state)))

====
